---- MODULE Spec2Model ----
(***************************************************************************)
(* Model of packages/owl-bot/src/scan-googleapis-gen-and-create-pull-     *)
(* requests.ts: the scan of googleapis-gen's commit history (newest       *)
(* first), the staleness and ledger filters, the grouping of outstanding  *)
(* config paths into Todos, and the oldest-first replay of the todo stack. *)
(*                                                                         *)
(* Strings that the code inspects character-wise (commit hashes and the    *)
(* begin-after-commit-hash values, which are trimmed) are sequences of     *)
(* symbols: the symbol WS is a whitespace character, a symbol h >= 1 is    *)
(* the text of commit hash number h.  Indices are 0-based as in the code.  *)
(***************************************************************************)
EXTENDS Integers, Sequences, FiniteSets, TLC

VARIABLES
  pc,                    \* position of the async function
  gitLog,                \* environment: hashes printed by `git log`, newest first
  affected,              \* environment: config store answer for each commit hash
  ledger,                \* environment: the copy-state ledger, a set of [repo, tag]
  combinePullsThreshold, \* parameter of the run
  commitHashes,          \* const commitHashes
  commitIndex,           \* loop variable of the scan loop
  repos,                 \* const repos (of the current commit)
  repoIdx,               \* position of `for (const repo of repos)`
  yamlIdx,               \* position of `for (const yaml of repo.yamls)`
  todoYamls,             \* const todoYamls (of the current repo)
  todoStack,             \* const todoStack
  stackSize,             \* const stackSize
  octokit,               \* let octokit
  replayIdx,             \* position of the replay loop
  returned,              \* the value the promise resolved to, once it has
  inspected,             \* log: commit indices given to getFilesModifiedBySha
  storeQueries,          \* log: commit indices given to findReposAffectedByFileChanges
  ledgerQueries,         \* log: findBuildForCopy calls [index, repo, path, hit]
  pushLog,               \* log: Todos in the order they were pushed
  copyCalls,             \* log: copyCodeAndAppendOrCreatePullRequest calls
  octokitCalls,          \* log: number of getShortLivedOctokit calls
  fnYamls,               \* isCommitHashTooOld taken alone: argument yamls
  fnIndex,               \* isCommitHashTooOld taken alone: argument commitIndex
  fnResult,              \* isCommitHashTooOld taken alone: the value returned
  failure,               \* the collaborator call that threw, if one did
  begun,                 \* log: collaborator calls that were started
  run,                   \* number of the run, when a second run follows
  firstRun               \* what the first run did, kept for the second

vars == <<pc, gitLog, affected, ledger, combinePullsThreshold, commitHashes,
          commitIndex, repos, repoIdx, yamlIdx, todoYamls, todoStack,
          stackSize, octokit, replayIdx, returned, inspected, storeQueries,
          ledgerQueries, pushLog, copyCalls, octokitCalls,
          fnYamls, fnIndex, fnResult, failure, begun, run, firstRun>>

envVars == <<gitLog, affected, ledger, combinePullsThreshold>>
fnVars == <<fnYamls, fnIndex, fnResult>>
auxVars == <<failure, begun, run, firstRun>>

----------------------------------------------------------------------------
(* Bounds *)

MaxCommits == 3
MaxLedger == 2
MaxYamls == 2

----------------------------------------------------------------------------
(* Values *)

\* The whitespace symbol of a string.
WS == 0

\* Number.MAX_SAFE_INTEGER (2^53 - 1) is written as the largest integer of the
\* model checker; it is only ever compared with the length of a list.
MAX_SAFE_INTEGER == 2147483647
Null == "null"

\* The text of commit hash number h.
HashText(h) == <<h>>

\* `git log -N --format=%H` for a history of n commits: newest first.
GitLogOf(n) == [i \in 1..n |-> HashText(n - i + 1)]

RECURSIVE TrimStart(_)
TrimStart(s) ==
  IF s # <<>> /\ Head(s) = WS THEN TrimStart(Tail(s)) ELSE s

RECURSIVE TrimEnd(_)
TrimEnd(s) ==
  IF s # <<>> /\ s[Len(s)] = WS THEN TrimEnd(SubSeq(s, 1, Len(s) - 1)) ELSE s

\* String.prototype.trim
Trim(s) == TrimEnd(TrimStart(s))

\* Array.prototype.indexOf: 0-based index of the first occurrence, or -1.
IndexOf(list, x) ==
  IF \E j \in 1..Len(list) : list[j] = x
  THEN (CHOOSE j \in 1..Len(list) :
          list[j] = x /\ \A m \in 1..(j - 1) : list[m] # x) - 1
  ELSE -1

\* Variant: the array is left in push order.
KeepOrder(s) == s

\* Array.prototype.reverse
RECURSIVE Reverse(_)
Reverse(s) == IF s = <<>> THEN <<>> ELSE Append(Reverse(Tail(s)), Head(s))

\* A value of type `T | undefined` is a set with at most one element:
\* {} is undefined, {v} is the value v.
Undefined == {}
Some(v) == {v}
ValueOf(opt) == CHOOSE v \in opt : TRUE

\* yaml.yaml['begin-after-commit-hash']?.trim()
TrimmedBeginAfter(yaml) ==
  IF yaml.yaml = Undefined THEN Undefined ELSE Some(Trim(ValueOf(yaml.yaml)))

\* Truthiness of a string | undefined: '' and undefined are falsy.
Truthy(opt) == opt # Undefined /\ opt # Some(<<>>)

\* Variant: the `break` is missing, the last truthy value wins.
RECURSIVE LastBeginAfter(_)
LastBeginAfter(yamls) ==
  IF yamls = <<>> THEN <<>>
  ELSE IF LastBeginAfter(Tail(yamls)) # <<>>
       THEN LastBeginAfter(Tail(yamls))
       ELSE IF Truthy(TrimmedBeginAfter(Head(yamls)))
            THEN ValueOf(TrimmedBeginAfter(Head(yamls)))
            ELSE <<>>

\* The loop of isCommitHashTooOld: the first truthy trimmed value, or ''.
RECURSIVE FirstBeginAfter(_)
FirstBeginAfter(yamls) ==
  IF yamls = <<>> THEN <<>>
  ELSE IF Truthy(TrimmedBeginAfter(Head(yamls)))
       THEN ValueOf(TrimmedBeginAfter(Head(yamls)))
       ELSE FirstBeginAfter(Tail(yamls))

\* Variant: the boundary commit itself is not counted as too old.
isCommitHashTooOldStrict(yamls, index, hashes) ==
  LET beginAfterCommitHash ==
        FirstBeginAfter(IF yamls = Undefined THEN <<>> ELSE ValueOf(yamls))
      beginIndex ==
        IF beginAfterCommitHash # <<>>
        THEN IndexOf(hashes, beginAfterCommitHash)
        ELSE -1
  IN beginIndex >= 0 /\ beginIndex < index

\* Variant: the result of indexOf is not tested for "not found".
isCommitHashTooOldUnchecked(yamls, index, hashes) ==
  LET beginAfterCommitHash ==
        FirstBeginAfter(IF yamls = Undefined THEN <<>> ELSE ValueOf(yamls))
      beginIndex ==
        IF beginAfterCommitHash # <<>>
        THEN IndexOf(hashes, beginAfterCommitHash)
        ELSE -1
  IN beginIndex <= index

\* Lines 48-66.  yamls is OwlBotYamlAndPath[] | undefined.
isCommitHashTooOld(yamls, index, hashes) ==
  LET beginAfterCommitHash ==
        FirstBeginAfter(IF yamls = Undefined THEN <<>> ELSE ValueOf(yamls))
      beginIndex ==
        IF beginAfterCommitHash # <<>>
        THEN IndexOf(hashes, beginAfterCommitHash)
        ELSE -1
  IN beginIndex >= 0 /\ beginIndex <= index

----------------------------------------------------------------------------
(* The collaborators' data *)

\* OwlBotYamlAndPath: begin is the 'begin-after-commit-hash' entry.
Yaml(path, begin) == [path |-> path, yaml |-> begin]

\* AffectedRepo
Affected(repo, yamls) == [repo |-> repo, yamls |-> yamls]

\* The commit that the config "/c" declares as its begin-after-commit-hash,
\* written with surrounding blanks.
BoundaryHash == HashText(2)
PaddedBoundary == <<WS>> \o BoundaryHash \o <<WS>>

\* Answers of configsStore.findReposAffectedByFileChanges.
StoreResults ==
  { <<>>,
    << Affected("R", <<Yaml("/a", Undefined)>>) >>,
    << Affected("R", <<Yaml("/a", Undefined), Yaml("/c", Some(PaddedBoundary))>>) >>,
    << Affected("S", <<Yaml("/a", Some(<<>>))>>),
       Affected("R", <<Yaml("/a", Undefined), Yaml("/b", Some(<<WS>>))>>) >> }

\* copyTagFrom(yamlPath, commitHash): a deterministic tag of the pair.
copyTagFrom(yamlPath, commitHash) == <<yamlPath, commitHash>>

\* Ledger records that a lookup of the scan can ask for.
LedgerKeys(log, aff) ==
  UNION { UNION { { [repo |-> aff[log[i]][r].repo,
                     tag |-> copyTagFrom(aff[log[i]][r].yamls[y].path, log[i])] :
                      y \in 1..Len(aff[log[i]][r].yamls) } :
                  r \in 1..Len(aff[log[i]]) } :
          i \in 1..Len(log) }

\* copyStateStore.findBuildForCopy: truthy exactly when a record exists.
findBuildForCopy(repo, tag) == [repo |-> repo, tag |-> tag] \in ledger

\* Values of combinePullsThreshold: below and at the largest number of config
\* paths of a repo in StoreResults, and the default.
Thresholds == {1, 2, MAX_SAFE_INTEGER}

----------------------------------------------------------------------------
(* The run *)

IdleFn == /\ fnYamls = Undefined
          /\ fnIndex = 0
          /\ fnResult = Undefined

\* No call has thrown.
NoFailure == [site |-> "none", position |-> 0]

\* Nothing is kept of a first run.
NoFirstRun == [ended |-> "none", todos |-> <<>>, copyCalls |-> <<>>, ledger |-> {}]

\* The first run begins: nothing has thrown, no call was started.
FreshRun == /\ failure = NoFailure
            /\ begun = {}
            /\ run = 1
            /\ firstRun = NoFirstRun

Init ==
  /\ \E n \in 1..MaxCommits : gitLog = GitLogOf(n)
  /\ affected \in [{gitLog[i] : i \in 1..Len(gitLog)} -> StoreResults]
  /\ ledger \in { l \in SUBSET LedgerKeys(gitLog, affected) :
                    Cardinality(l) <= MaxLedger }
  /\ combinePullsThreshold \in Thresholds
  /\ pc = "start"
  /\ commitHashes = <<>>
  /\ commitIndex = 0
  /\ repos = <<>>
  /\ repoIdx = 0
  /\ yamlIdx = 0
  /\ todoYamls = <<>>
  /\ todoStack = <<>>
  /\ stackSize = 0
  /\ octokit = Null
  /\ replayIdx = 0
  /\ returned = Undefined
  /\ inspected = {}
  /\ storeQueries = {}
  /\ ledgerQueries = {}
  /\ pushLog = <<>>
  /\ copyCalls = <<>>
  /\ octokitCalls = 0
  /\ IdleFn
  /\ FreshRun

\* Lines 104-114: collect the history of commit hashes, enter the scan loop.
CollectHistory ==
  /\ pc = "start"
  /\ commitHashes' = gitLog
  /\ commitIndex' = 0
  /\ pc' = "commit"
  /\ UNCHANGED <<envVars, fnVars, auxVars, repos, repoIdx, yamlIdx, todoYamls,
                 todoStack, stackSize, octokit, replayIdx, returned, inspected,
                 storeQueries, ledgerQueries, pushLog, copyCalls, octokitCalls>>

\* Lines 118-122: the next commit of the loop; its touched files are fetched.
GetFilesModified ==
  /\ pc = "commit"
  /\ commitIndex < Len(commitHashes)
  /\ inspected' = inspected \cup {commitIndex}
  /\ pc' = "findRepos"
  /\ UNCHANGED <<envVars, fnVars, auxVars, commitHashes, commitIndex, repos, repoIdx,
                 yamlIdx, todoYamls, todoStack, stackSize, octokit, replayIdx,
                 returned, storeQueries, ledgerQueries, pushLog, copyCalls,
                 octokitCalls>>

\* Lines 128-134: the config store is asked, the stack size is remembered.
FindRepos ==
  /\ pc = "findRepos"
  /\ repos' = affected[commitHashes[commitIndex + 1]]
  /\ storeQueries' = storeQueries \cup {commitIndex}
  /\ stackSize' = Len(todoStack)
  /\ repoIdx' = 0
  /\ pc' = "repo"
  /\ UNCHANGED <<envVars, fnVars, auxVars, commitHashes, commitIndex, yamlIdx,
                 todoYamls, todoStack, octokit, replayIdx, returned, inspected,
                 ledgerQueries, pushLog, copyCalls, octokitCalls>>

\* Variant: the factory is called for every repo, without the `??`.
GetOctokitEachRepo ==
  /\ pc = "repo"
  /\ repoIdx < Len(repos)
  /\ octokit' = "octokit"
  /\ octokitCalls' = octokitCalls + 1
  /\ pc' = "tooOld"
  /\ UNCHANGED <<envVars, fnVars, auxVars, commitHashes, commitIndex, repos,
                 repoIdx, yamlIdx, todoYamls, todoStack, stackSize, replayIdx,
                 returned, inspected, storeQueries, ledgerQueries, pushLog,
                 copyCalls>>

\* Line 135: octokit = octokit ?? (await octokitFactory.getShortLivedOctokit())
GetOctokit ==
  /\ pc = "repo"
  /\ repoIdx < Len(repos)
  /\ IF octokit = Null
     THEN octokit' = "octokit" /\ octokitCalls' = octokitCalls + 1
     ELSE UNCHANGED <<octokit, octokitCalls>>
  /\ pc' = "tooOld"
  /\ UNCHANGED <<envVars, fnVars, auxVars, commitHashes, commitIndex, repos, repoIdx,
                 yamlIdx, todoYamls, todoStack, stackSize, replayIdx, returned,
                 inspected, storeQueries, ledgerQueries, pushLog, copyCalls>>

\* Variant: the `continue` is missing, a stale repo is only logged.
CheckTooOldLogOnly ==
  /\ pc = "tooOld"
  /\ todoYamls' = <<>>
  /\ yamlIdx' = 0
  /\ pc' = "yaml"
  /\ UNCHANGED <<envVars, fnVars, auxVars, commitHashes, commitIndex, repos,
                 repoIdx, todoStack, stackSize, octokit, replayIdx, returned,
                 inspected, storeQueries, ledgerQueries, pushLog, copyCalls,
                 octokitCalls>>

\* Lines 137-144: a stale repo is skipped, otherwise its yamls are looked up.
CheckTooOld ==
  /\ pc = "tooOld"
  /\ IF isCommitHashTooOld(Some(repos[repoIdx + 1].yamls), commitIndex,
                           commitHashes)
     THEN /\ repoIdx' = repoIdx + 1
          /\ pc' = "repo"
          /\ UNCHANGED <<todoYamls, yamlIdx>>
     ELSE /\ todoYamls' = <<>>
          /\ yamlIdx' = 0
          /\ pc' = "yaml"
          /\ UNCHANGED repoIdx
  /\ UNCHANGED <<envVars, fnVars, auxVars, commitHashes, commitIndex, repos, todoStack,
                 stackSize, octokit, replayIdx, returned, inspected,
                 storeQueries, ledgerQueries, pushLog, copyCalls, octokitCalls>>

\* Variant: the path is added whether or not a build was found.
AlwaysTodo(yamls, path, copyBuildId) == Append(yamls, path)

\* Variant: the test of the build id is inverted.
InvertedTodo(yamls, path, copyBuildId) ==
  IF copyBuildId THEN Append(yamls, path) ELSE yamls

\* Lines 150-157: a hit is only logged, a miss adds the path to todoYamls.
NextTodoYamls(yamls, path, copyBuildId) ==
  IF copyBuildId THEN yamls ELSE Append(yamls, path)

\* Lines 145-158: one ledger lookup of the loop over repo.yamls.
FindBuildForCopy ==
  /\ pc = "yaml"
  /\ yamlIdx < Len(repos[repoIdx + 1].yamls)
  /\ LET repo == repos[repoIdx + 1]
         yaml == repo.yamls[yamlIdx + 1]
         commitHash == commitHashes[commitIndex + 1]
         copyBuildId == findBuildForCopy(repo.repo,
                                         copyTagFrom(yaml.path, commitHash))
     IN /\ ledgerQueries' = ledgerQueries \cup
             {[index |-> commitIndex, repo |-> repo.repo, path |-> yaml.path,
               hit |-> copyBuildId]}
        /\ todoYamls' = NextTodoYamls(todoYamls, yaml.path, copyBuildId)
  /\ yamlIdx' = yamlIdx + 1
  /\ UNCHANGED <<envVars, fnVars, auxVars, pc, commitHashes, commitIndex, repos,
                 repoIdx, todoStack, stackSize, octokit, replayIdx, returned,
                 inspected, storeQueries, pushLog, copyCalls, octokitCalls>>

\* Variant: the threshold itself already combines (>= for >).
TodosForAtLeast(repo, yamlPaths, commitHash, threshold) ==
  IF Len(yamlPaths) >= threshold
  THEN << [repo |-> repo, yamlPaths |-> yamlPaths, commitHash |-> commitHash] >>
  ELSE [k \in 1..Len(yamlPaths) |->
          [repo |-> repo, yamlPaths |-> <<yamlPaths[k]>>,
           commitHash |-> commitHash]]

\* Variant: the paths of a repo are always combined, the threshold is unused.
TodosForCombined(repo, yamlPaths, commitHash, threshold) ==
  << [repo |-> repo, yamlPaths |-> yamlPaths, commitHash |-> commitHash] >>

\* Variant: below the threshold the Todos are made from the last path to
\* the first.
TodosForLastFirst(repo, yamlPaths, commitHash, threshold) ==
  IF Len(yamlPaths) > threshold
  THEN << [repo |-> repo, yamlPaths |-> yamlPaths, commitHash |-> commitHash] >>
  ELSE [k \in 1..Len(yamlPaths) |->
          [repo |-> repo, yamlPaths |-> <<yamlPaths[Len(yamlPaths) - k + 1]>>,
           commitHash |-> commitHash]]

\* Variant: below the threshold only the first path of the repo gets a Todo.
TodosForFirstPath(repo, yamlPaths, commitHash, threshold) ==
  IF Len(yamlPaths) > threshold
  THEN << [repo |-> repo, yamlPaths |-> yamlPaths, commitHash |-> commitHash] >>
  ELSE << [repo |-> repo, yamlPaths |-> <<yamlPaths[1]>>,
           commitHash |-> commitHash] >>

\* Lines 161-166: one combined Todo above the threshold, else one per path.
TodosFor(repo, yamlPaths, commitHash, threshold) ==
  IF Len(yamlPaths) > threshold
  THEN << [repo |-> repo, yamlPaths |-> yamlPaths, commitHash |-> commitHash] >>
  ELSE [k \in 1..Len(yamlPaths) |->
          [repo |-> repo, yamlPaths |-> <<yamlPaths[k]>>,
           commitHash |-> commitHash]]

\* Lines 160-174: the Todos of the repo are pushed, the next repo follows.
PushTodos ==
  /\ pc = "yaml"
  /\ yamlIdx = Len(repos[repoIdx + 1].yamls)
  /\ LET todos == IF Len(todoYamls) > 0
                  THEN TodosFor(repos[repoIdx + 1].repo, todoYamls,
                                commitHashes[commitIndex + 1],
                                combinePullsThreshold)
                  ELSE <<>>
     IN /\ todoStack' = todoStack \o todos
        /\ pushLog' = pushLog \o todos
  /\ repoIdx' = repoIdx + 1
  /\ pc' = "repo"
  /\ UNCHANGED <<envVars, fnVars, auxVars, commitHashes, commitIndex, repos, yamlIdx,
                 todoYamls, stackSize, octokit, replayIdx, returned, inspected,
                 storeQueries, ledgerQueries, copyCalls, octokitCalls>>

\* Variant: the stack is compared with the empty stack, not with stackSize.
StackIsEmpty(rs, stack, size) == Len(rs) > 0 /\ Len(stack) = 0

\* Variant: the number of affected repos is not tested.
NoNewTodo(rs, stack, size) == Len(stack) = size

\* Variant: the stack is not tested.
AnyRepoAffected(rs, stack, size) == Len(rs) > 0

\* Line 177: the condition of the break.
AllPullRequestsCreated(rs, stack, size) == Len(rs) > 0 /\ Len(stack) = size

\* Lines 175-181: after the last repo of a commit, break or go on.
EndCommit ==
  /\ pc = "repo"
  /\ repoIdx = Len(repos)
  /\ IF AllPullRequestsCreated(repos, todoStack, stackSize)
     THEN pc' = "searched" /\ UNCHANGED commitIndex
     ELSE pc' = "commit" /\ commitIndex' = commitIndex + 1
  /\ UNCHANGED <<envVars, fnVars, auxVars, commitHashes, repos, repoIdx, yamlIdx,
                 todoYamls, todoStack, stackSize, octokit, replayIdx, returned,
                 inspected, storeQueries, ledgerQueries, pushLog, copyCalls,
                 octokitCalls>>

\* Line 118: the loop ends when the commit hashes are exhausted.
HistoryExhausted ==
  /\ pc = "commit"
  /\ commitIndex >= Len(commitHashes)
  /\ pc' = "searched"
  /\ UNCHANGED <<envVars, fnVars, auxVars, commitHashes, commitIndex, repos, repoIdx,
                 yamlIdx, todoYamls, todoStack, stackSize, octokit, replayIdx,
                 returned, inspected, storeQueries, ledgerQueries, pushLog,
                 copyCalls, octokitCalls>>

\* Lines 182-186: todoStack.reverse() reverses the array in place.
ReverseStack ==
  /\ pc = "searched"
  /\ todoStack' = Reverse(todoStack)
  /\ replayIdx' = 0
  /\ pc' = "replay"
  /\ UNCHANGED <<envVars, fnVars, auxVars, commitHashes, commitIndex, repos, repoIdx,
                 yamlIdx, todoYamls, stackSize, octokit, returned, inspected,
                 storeQueries, ledgerQueries, pushLog, copyCalls, octokitCalls>>

\* Lines 186-202: one awaited copyCodeAndAppendOrCreatePullRequest call.
CopyCode ==
  /\ pc = "replay"
  /\ replayIdx < Len(todoStack)
  /\ LET todo == todoStack[replayIdx + 1]
     IN copyCalls' = Append(copyCalls,
          [destRepo |-> todo.repo,
           sourceRepoCommitHash |-> todo.commitHash,
           yamlPaths |-> todo.yamlPaths])
  /\ replayIdx' = replayIdx + 1
  /\ UNCHANGED <<envVars, fnVars, auxVars, pc, commitHashes, commitIndex, repos,
                 repoIdx, yamlIdx, todoYamls, todoStack, stackSize, octokit,
                 returned, inspected, storeQueries, ledgerQueries, pushLog,
                 octokitCalls>>

\* Variant: the size remembered for the last commit is returned.
ReturnStackSize ==
  /\ pc = "replay"
  /\ replayIdx = Len(todoStack)
  /\ returned' = Some(stackSize)
  /\ pc' = "done"
  /\ UNCHANGED <<envVars, fnVars, auxVars, commitHashes, commitIndex, repos, repoIdx,
                 yamlIdx, todoYamls, todoStack, stackSize, octokit, replayIdx,
                 inspected, storeQueries, ledgerQueries, pushLog, copyCalls,
                 octokitCalls>>

\* Line 203: return todoStack.length
Return ==
  /\ pc = "replay"
  /\ replayIdx = Len(todoStack)
  /\ returned' = Some(Len(todoStack))
  /\ pc' = "done"
  /\ UNCHANGED <<envVars, fnVars, auxVars, commitHashes, commitIndex, repos, repoIdx,
                 yamlIdx, todoYamls, todoStack, stackSize, octokit, replayIdx,
                 inspected, storeQueries, ledgerQueries, pushLog, copyCalls,
                 octokitCalls>>

Next ==
  \/ CollectHistory
  \/ GetFilesModified
  \/ FindRepos
  \/ GetOctokit
  \/ CheckTooOld
  \/ FindBuildForCopy
  \/ PushTodos
  \/ EndCommit
  \/ HistoryExhausted
  \/ ReverseStack
  \/ CopyCode
  \/ Return

Spec == Init /\ [][Next]_vars

----------------------------------------------------------------------------
(* isCommitHashTooOld taken alone *)

\* Values of the 'begin-after-commit-hash' entry: missing, empty, blank, a
\* hash, a hash written with surrounding blanks.  Hash MaxCommits + 1 occurs
\* in no commit-hash list.
BeginValues ==
  {Undefined, Some(<<>>), Some(<<WS>>)}
    \cup {Some(HashText(h)) : h \in 1..(MaxCommits + 1)}
    \cup {Some(<<WS>> \o HashText(h) \o <<WS>>) : h \in 1..(MaxCommits + 1)}

YamlInputs == {Yaml("/a", b) : b \in BeginValues}

YamlLists ==
  UNION {[1..n -> YamlInputs] : n \in 0..MaxYamls}

InitTooOld ==
  /\ pc = "fn"
  /\ \E n \in 0..MaxCommits : commitHashes = GitLogOf(n)
  /\ fnYamls \in {Undefined} \cup {Some(l) : l \in YamlLists}
  /\ fnIndex \in 0..MaxCommits
  /\ fnResult = Undefined
  /\ gitLog = <<>>
  /\ affected = <<>>
  /\ ledger = {}
  /\ combinePullsThreshold = MAX_SAFE_INTEGER
  /\ commitIndex = 0
  /\ repos = <<>>
  /\ repoIdx = 0
  /\ yamlIdx = 0
  /\ todoYamls = <<>>
  /\ todoStack = <<>>
  /\ stackSize = 0
  /\ octokit = Null
  /\ replayIdx = 0
  /\ returned = Undefined
  /\ inspected = {}
  /\ storeQueries = {}
  /\ ledgerQueries = {}
  /\ pushLog = <<>>
  /\ copyCalls = <<>>
  /\ octokitCalls = 0
  /\ FreshRun

\* Lines 48-66: one call of the function.
CallIsCommitHashTooOld ==
  /\ pc = "fn"
  /\ fnResult = Undefined
  /\ fnResult' = Some(isCommitHashTooOld(fnYamls, fnIndex, commitHashes))
  /\ UNCHANGED <<envVars, auxVars, pc, commitHashes, commitIndex, repos,
                 repoIdx, yamlIdx, todoYamls, todoStack, stackSize, octokit,
                 replayIdx, returned, inspected, storeQueries, ledgerQueries,
                 pushLog, copyCalls, octokitCalls, fnYamls, fnIndex>>

NextTooOld == CallIsCommitHashTooOld

SpecTooOld == InitTooOld /\ [][NextTooOld]_vars

----------------------------------------------------------------------------
(* Properties of isCommitHashTooOld, under SpecTooOld *)

\* A string of blanks only (the empty string included).
Blank(s) == \A j \in 1..Len(s) : s[j] = WS

\* The config has a begin-after-commit-hash that is more than blanks.
Declares(y) == y.yaml # Undefined /\ ~Blank(ValueOf(y.yaml))

\* The declared hash: the text between the first and the last non-blank.
DeclaredHash(y) ==
  LET s == ValueOf(y.yaml)
      nonBlank == {j \in 1..Len(s) : s[j] # WS}
      lo == CHOOSE j \in nonBlank : \A m \in nonBlank : j <= m
      hi == CHOOSE j \in nonBlank : \A m \in nonBlank : j >= m
  IN SubSeq(s, lo, hi)

\* The boundary of a config list: the hash of its first declaring config.
BoundaryOf(list) ==
  DeclaredHash(list[CHOOSE j \in 1..Len(list) :
                      Declares(list[j]) /\ \A m \in 1..(j - 1) : ~Declares(list[m])])

HasBoundary(list) == \E j \in 1..Len(list) : Declares(list[j])

\* 0-based positions of hash H in the list of commit hashes.
PositionsOf(H, hashes) == {k \in 0..(Len(hashes) - 1) : hashes[k + 1] = H}

\* C7: with boundary H at index k of the commit hashes, the function returns
\* true exactly for the indices i >= k; with H not in the list it returns false.
C7_StalenessBoundary ==
  (fnResult # Undefined /\ fnYamls # Undefined /\ HasBoundary(ValueOf(fnYamls)))
    => LET H == BoundaryOf(ValueOf(fnYamls))
       IN IF PositionsOf(H, commitHashes) = {}
          THEN ValueOf(fnResult) = FALSE
          ELSE \A k \in PositionsOf(H, commitHashes) :
                 ValueOf(fnResult) = (fnIndex >= k)

\* A call with a blank-padded boundary at an index k >= 1, examined at
\* exactly that index k, has answered true.
C7_Witness ==
  /\ fnResult = Some(TRUE)
  /\ fnYamls # Undefined
  /\ HasBoundary(ValueOf(fnYamls))
  /\ fnIndex >= 1
  /\ fnIndex \in PositionsOf(BoundaryOf(ValueOf(fnYamls)), commitHashes)
  /\ \E j \in 1..Len(ValueOf(fnYamls)) :
        LET v == ValueOf(fnYamls)[j].yaml
        IN v # Undefined /\ Len(ValueOf(v)) = 3

\* C8: when no config declares a begin-after-commit-hash (missing, empty or
\* blank), and when the config list is undefined, the function returns false.
C8_NoBoundaryNeverStale ==
  (fnResult # Undefined
     /\ (fnYamls = Undefined \/ ~HasBoundary(ValueOf(fnYamls))))
    => ValueOf(fnResult) = FALSE

\* A call on two configs, one with a blank value and one without the key,
\* for the last index of a full list of commit hashes, has answered.
C8_Witness ==
  /\ fnResult = Some(FALSE)
  /\ fnYamls = Some(<<Yaml("/a", Some(<<WS>>)), Yaml("/a", Undefined)>>)
  /\ Len(commitHashes) = MaxCommits
  /\ fnIndex = Len(commitHashes) - 1

\* Positions of the configs of the list that declare a boundary.
DeclaringAt(list) == {j \in 1..Len(list) : Declares(list[j])}

\* C17: when two or more configs declare a boundary, the result is that of
\* the first one in list order alone: true exactly when its hash is in the
\* commit hashes at or before the index; so false when its hash is not in
\* the list, whatever the later configs declare.
C17_FirstBoundaryOnly ==
  (fnResult # Undefined /\ fnYamls # Undefined
     /\ Cardinality(DeclaringAt(ValueOf(fnYamls))) >= 2)
    => LET list == ValueOf(fnYamls)
           first == CHOOSE j \in DeclaringAt(list) :
                      \A m \in DeclaringAt(list) : j <= m
           H == DeclaredHash(list[first])
       IN ValueOf(fnResult) =
            (\E k \in PositionsOf(H, commitHashes) : k <= fnIndex)

\* A call has answered false on two declaring configs, the first with a
\* hash that is not in the list, the second with the hash of index 0.
C17_Witness ==
  /\ fnResult = Some(FALSE)
  /\ fnYamls # Undefined
  /\ Len(ValueOf(fnYamls)) = 2
  /\ DeclaringAt(ValueOf(fnYamls)) = {1, 2}
  /\ PositionsOf(DeclaredHash(ValueOf(fnYamls)[1]), commitHashes) = {}
  /\ PositionsOf(DeclaredHash(ValueOf(fnYamls)[2]), commitHashes) = {0}
  /\ fnIndex >= 1

----------------------------------------------------------------------------
(* Properties of the run, under Spec *)

ScanFinished == pc \in {"searched", "replay", "done"}

HashAt(i) == commitHashes[i + 1]

Range(s) == {s[k] : k \in 1..Len(s)}

\* The scan has gone through commit i, up to the test of the break.
Processed(i) == i \in storeQueries /\ (i < commitIndex \/ ScanFinished)

\* Positions of pushLog holding the Todos pushed for commit i.
PushedFor(i) == {k \in 1..Len(pushLog) : pushLog[k].commitHash = HashAt(i)}

\* C1: the copy calls go from older to newer commits (a larger history index
\* is an older commit), and no copy call is made before the scan loop is over.
C1_ReplayOldestFirst ==
  /\ \A j \in 1..(Len(copyCalls) - 1) :
       IndexOf(commitHashes, copyCalls[j].sourceRepoCommitHash)
         >= IndexOf(commitHashes, copyCalls[j + 1].sourceRepoCommitHash)
  /\ copyCalls # <<>> => pc \in {"replay", "done"}

\* A finished run that copied for the oldest commit first and for the newest
\* commit last, with three commits in the history.
C1_Witness ==
  /\ pc = "done"
  /\ Len(commitHashes) >= 3
  /\ Len(copyCalls) >= 3
  /\ copyCalls[1].sourceRepoCommitHash = HashAt(Len(commitHashes) - 1)
  /\ copyCalls[Len(copyCalls)].sourceRepoCommitHash = HashAt(0)

\* Commit i was processed, affected some repo and pushed no Todo.
FullyCovered(i) ==
  /\ Processed(i)
  /\ affected[HashAt(i)] # <<>>
  /\ PushedFor(i) = {}

\* C2: after a processed commit i that affects a repo and pushed no Todo, no
\* older commit is inspected, queried in the store or the ledger, or copied.
C2_EarlyTermination ==
  \A i \in storeQueries :
    FullyCovered(i) =>
      \A j \in (i + 1)..(Len(commitHashes) - 1) :
        /\ j \notin inspected
        /\ j \notin storeQueries
        /\ \A q \in ledgerQueries : q.index # j
        /\ \A c \in Range(copyCalls) : c.sourceRepoCommitHash # HashAt(j)

\* A finished run that stopped at its second commit, leaving a third one
\* alone, after pushing (and then copying) for the first.
C2_Witness ==
  /\ pc = "done"
  /\ FullyCovered(1)
  /\ Len(commitHashes) >= 3
  /\ copyCalls # <<>>

\* C3: when the scan is over, if every commit up to i affects no repo or
\* pushed a Todo, and i is not the last index, commit i + 1 was inspected.
C3_ZeroReposKeepsScanning ==
  ScanFinished =>
    \A i \in 0..(Len(commitHashes) - 2) :
      (\A j \in 0..i : affected[HashAt(j)] = <<>> \/ PushedFor(j) # {})
        => (i + 1) \in inspected

\* A finished run whose two newest commits affect no repo and whose third
\* commit was inspected.
C3_Witness ==
  /\ pc = "done"
  /\ Len(commitHashes) >= 3
  /\ affected[HashAt(0)] = <<>>
  /\ affected[HashAt(1)] = <<>>
  /\ 2 \in inspected

\* Todo-like records (pushed Todos, copy calls) naming repo, commit and path.
TodoHas(todo, hash, repo, index, path) ==
  /\ todo.repo = repo
  /\ hash = HashAt(index)
  /\ path \in Range(todo.yamlPaths)

\* The lookup q belongs to the repo whose yamls are being looked up now.
InProgress(q) ==
  /\ pc = "yaml"
  /\ commitIndex = q.index
  /\ repos[repoIdx + 1].repo = q.repo

\* C4: a path whose lookup found a build is in no Todo (pending, pushed or
\* copied) of that repo and commit; a path whose lookup found none is in the
\* todo list of the repo, and in a pushed Todo once the repo is done.
C4_Dedup ==
  \A q \in ledgerQueries :
    IF q.hit
    THEN /\ \A t \in Range(pushLog) \cup Range(todoStack) :
              ~TodoHas(t, t.commitHash, q.repo, q.index, q.path)
         /\ \A c \in Range(copyCalls) :
              ~TodoHas([repo |-> c.destRepo, yamlPaths |-> c.yamlPaths],
                       c.sourceRepoCommitHash, q.repo, q.index, q.path)
         /\ InProgress(q) => q.path \notin Range(todoYamls)
    ELSE IF InProgress(q)
         THEN q.path \in Range(todoYamls)
         ELSE \E t \in Range(pushLog) :
                TodoHas(t, t.commitHash, q.repo, q.index, q.path)

\* A finished run in which, for one repo and commit, one path was found in
\* the ledger and another was not, and the latter was copied.
C4_Witness ==
  /\ pc = "done"
  /\ \E q1, q2 \in ledgerQueries :
       /\ q1.index = q2.index /\ q1.repo = q2.repo
       /\ q1.hit /\ ~q2.hit
       /\ \E c \in Range(copyCalls) :
            /\ c.destRepo = q2.repo
            /\ c.sourceRepoCommitHash = HashAt(q2.index)
            /\ c.yamlPaths = <<q2.path>>

\* The scan is done with the r-th repo of commit i.
RepoDone(i, r) ==
  /\ i \in storeQueries
  /\ \/ i < commitIndex
     \/ ScanFinished
     \/ i = commitIndex /\ pc \in {"repo", "tooOld", "yaml"} /\ r <= repoIdx

\* The outstanding config paths of the r-th repo of commit i, in config
\* order: those with no ledger record.
OutstandingPaths(i, r) ==
  LET a == affected[HashAt(i)][r]
      NoRecord(y) ==
        [repo |-> a.repo, tag |-> copyTagFrom(y.path, HashAt(i))] \notin ledger
      ys == SelectSeq(a.yamls, NoRecord)
  IN [k \in 1..Len(ys) |-> ys[k].path]

\* The Todos pushed for repo name and commit i, in push order.
TodosOf(i, name) ==
  LET Mine(t) == t.repo = name /\ t.commitHash = HashAt(i)
  IN SelectSeq(pushLog, Mine)

Stale(i, r) ==
  isCommitHashTooOld(Some(affected[HashAt(i)][r].yamls), i, commitHashes)

\* C5: for a repo and commit with n >= 1 outstanding paths, n above the
\* threshold gives exactly one Todo with the n paths in config order, and
\* otherwise exactly n Todos of one path each, whatever was pushed before.
C5_Aggregator ==
  \A i \in storeQueries :
    \A r \in 1..Len(affected[HashAt(i)]) :
      LET paths == OutstandingPaths(i, r)
          todos == TodosOf(i, affected[HashAt(i)][r].repo)
      IN (RepoDone(i, r) /\ ~Stale(i, r) /\ Len(paths) >= 1) =>
           IF Len(paths) > combinePullsThreshold
           THEN /\ Len(todos) = 1
                /\ todos[1].yamlPaths = paths
           ELSE /\ Len(todos) = Len(paths)
                /\ \A k \in 1..Len(todos) : Len(todos[k].yamlPaths) = 1
                /\ {t.yamlPaths[1] : t \in Range(todos)} = Range(paths)

\* A finished run with threshold 1 that pushed a Todo combining two paths
\* and later, for another commit, a Todo of one path, the stack then holding
\* more Todos than the threshold.
C5_Witness ==
  /\ pc = "done"
  /\ combinePullsThreshold = 1
  /\ \E k1, k2 \in 1..Len(pushLog) :
       /\ k1 < k2
       /\ Len(pushLog[k1].yamlPaths) = 2
       /\ Len(pushLog[k2].yamlPaths) = 1
       /\ pushLog[k1].commitHash # pushLog[k2].commitHash

\* A finished run over one commit that affects one repo with two config
\* paths, none of them in the ledger.
OneCommitTwoPaths ==
  /\ pc = "done"
  /\ Len(commitHashes) = 1
  /\ Len(affected[HashAt(0)]) = 1
  /\ Len(affected[HashAt(0)][1].yamls) = 2
  /\ ledger = {}

TwoSeparateTodos ==
  /\ Len(pushLog) = 2
  /\ \A k \in 1..2 :
       pushLog[k].yamlPaths = <<affected[HashAt(0)][1].yamls[k].path>>

OneCombinedTodo ==
  /\ Len(pushLog) = 1
  /\ pushLog[1].yamlPaths =
       [k \in 1..2 |-> affected[HashAt(0)][1].yamls[k].path]

\* C6 as stated: threshold 1 gives two separate Todos and threshold 2 gives
\* one combined Todo.
C6_AsStated ==
  OneCommitTwoPaths =>
    /\ combinePullsThreshold = 1 => TwoSeparateTodos
    /\ combinePullsThreshold = 2 => OneCombinedTodo

\* C6 amended: for one commit affecting one repo with two config paths not in
\* the ledger, threshold 1 gives one combined Todo holding both paths, and
\* threshold 2 gives two separate Todos, one per path.
C6_ThresholdIsExclusive ==
  OneCommitTwoPaths =>
    /\ combinePullsThreshold = 1 => OneCombinedTodo
    /\ combinePullsThreshold = 2 => TwoSeparateTodos

\* The case of C6 with threshold 2, finished with two Todos copied.
C6_Witness ==
  /\ OneCommitTwoPaths
  /\ combinePullsThreshold = 2
  /\ Len(copyCalls) = 2

\* Number of positions of the sequence s that hold x.
Count(s, x) == Cardinality({k \in 1..Len(s) : s[k] = x})

AsTodo(c) ==
  [repo |-> c.destRepo, yamlPaths |-> c.yamlPaths,
   commitHash |-> c.sourceRepoCommitHash]

\* C9: the value returned is the number of Todos pushed and the number of
\* copy calls, and each pushed Todo was copied exactly once.
C9_ReturnsExecutedCount ==
  returned # Undefined =>
    /\ ValueOf(returned) = Len(pushLog)
    /\ ValueOf(returned) = Len(copyCalls)
    /\ \A t \in Range(pushLog) :
         Count(pushLog, t) = Count([k \in 1..Len(copyCalls) |-> AsTodo(copyCalls[k])], t)

\* A run that returned after pushing Todos for at least two commits, the
\* last commit processed having pushed none.
C9_Witness ==
  /\ pc = "done"
  /\ returned # Undefined
  /\ ValueOf(returned) >= 2
  /\ Len(todoStack) > stackSize
  /\ \E t1, t2 \in Range(pushLog) : t1.commitHash # t2.commitHash

\* The history [C3, C2, C1] in which only C2 affects repo R, at path /a, with
\* an empty ledger and the default threshold.
EndToEndInput ==
  /\ gitLog = GitLogOf(3)
  /\ affected[HashText(3)] = <<>>
  /\ affected[HashText(1)] = <<>>
  /\ Len(affected[HashText(2)]) = 1
  /\ affected[HashText(2)][1].repo = "R"
  /\ [k \in 1..Len(affected[HashText(2)][1].yamls) |->
        affected[HashText(2)][1].yamls[k].path] = <<"/a">>
  /\ ledger = {}
  /\ combinePullsThreshold = MAX_SAFE_INTEGER

\* C10: on that input the three commits are inspected, the only copy call is
\* for R, C2 and ['/a'], and the run returns 1.
C10_EndToEnd ==
  (EndToEndInput /\ pc = "done") =>
    /\ inspected = {0, 1, 2}
    /\ copyCalls = << [destRepo |-> "R",
                       sourceRepoCommitHash |-> HashText(2),
                       yamlPaths |-> <<"/a">>] >>
    /\ returned = Some(1)

\* The run on that input has finished.
C10_Witness ==
  /\ EndToEndInput
  /\ pc = "done"
  /\ Len(copyCalls) = 1

\* The r-th repo of commit i is stale, by the boundary of its config list.
StaleByBoundary(i, r) ==
  LET list == affected[HashAt(i)][r].yamls
  IN /\ HasBoundary(list)
     /\ \E k \in PositionsOf(BoundaryOf(list), commitHashes) : k <= i

\* Commit i has a config path that is affected, not stale and not recorded.
OutstandingAt(i) ==
  \E r \in 1..Len(affected[HashAt(i)]) :
    ~StaleByBoundary(i, r) /\ OutstandingPaths(i, r) # <<>>

\* C11 as stated: after an early stop at commit i, no older commit of the
\* window has a config path that is affected, not stale and not recorded.
C11_AsStated ==
  \A i \in storeQueries :
    FullyCovered(i) =>
      \A j \in (i + 1)..(Len(commitHashes) - 1) : ~OutstandingAt(j)

\* C11 amended: after an early stop at commit i, commit i itself has no
\* config path that is affected, not stale and not recorded.
C11_StopCommitIsCovered ==
  \A i \in storeQueries : FullyCovered(i) => ~OutstandingAt(i)

\* A finished run that stopped at a commit whose lookups all found a build,
\* while an older commit still has outstanding work.
C11_Witness ==
  /\ pc = "done"
  /\ \E i \in storeQueries :
       /\ FullyCovered(i)
       /\ \E q \in ledgerQueries : q.index = i /\ q.hit
       /\ \E j \in (i + 1)..(Len(commitHashes) - 1) : OutstandingAt(j)

\* Every repo that commit i affects is stale, and there is one.
AllStale(i) ==
  /\ affected[HashAt(i)] # <<>>
  /\ \A r \in 1..Len(affected[HashAt(i)]) : StaleByBoundary(i, r)

\* C16: for a stale repo of a commit the ledger is not queried and no Todo
\* is pushed; a processed commit whose affected repos are all stale ends the
\* scan: no older commit is inspected.
C16_StaleSkippedButCounted ==
  \A i \in storeQueries :
    /\ \A r \in 1..Len(affected[HashAt(i)]) :
         (RepoDone(i, r) /\ StaleByBoundary(i, r)) =>
           /\ \A q \in ledgerQueries :
                ~(q.index = i /\ q.repo = affected[HashAt(i)][r].repo)
           /\ TodosOf(i, affected[HashAt(i)][r].repo) = <<>>
    /\ (Processed(i) /\ AllStale(i)) =>
         /\ ScanFinished
         /\ commitIndex = i
         /\ \A j \in (i + 1)..(Len(commitHashes) - 1) : j \notin inspected

\* A finished run that pushed a Todo for a newer commit and stopped at a
\* commit whose only affected repo is stale, with an older commit behind it.
C16_Witness ==
  /\ pc = "done"
  /\ copyCalls # <<>>
  /\ \E i \in storeQueries :
       /\ AllStale(i)
       /\ i + 1 < Len(commitHashes)
       /\ (i + 1) \notin inspected

\* The commits whose repos the config store has reported, with a repo.
AffectedSeen == {i \in storeQueries : affected[HashAt(i)] # <<>>}

\* C18: getShortLivedOctokit is called at most once in a run; it has been
\* called once whenever a staleness check is due; and when the scan is over
\* it was called exactly when some inspected commit affects a repo.
C18_LazyOctokit ==
  /\ octokitCalls <= 1
  /\ pc = "tooOld" => octokitCalls = 1 /\ octokit # Null
  /\ ScanFinished => (octokitCalls = 0 <=> AffectedSeen = {})
  /\ octokitCalls = 0 <=> octokit = Null

\* A finished run that inspected two commits affecting repos, one of them
\* two repos, after a first commit affecting none, with one factory call.
C18_Witness ==
  /\ pc = "done"
  /\ octokitCalls = 1
  /\ Cardinality(AffectedSeen) >= 2
  /\ 0 \in storeQueries \ AffectedSeen
  /\ \E i \in AffectedSeen : Len(affected[HashAt(i)]) = 2

\* The triples (repo, commit index, config path) of the inspected commits that
\* are affected, not stale and not recorded in the ledger.
OutstandingTriples ==
  UNION { UNION { { <<affected[HashAt(i)][r].repo, i, p>> :
                      p \in Range(OutstandingPaths(i, r)) } :
                  r \in {q \in 1..Len(affected[HashAt(i)]) :
                            ~StaleByBoundary(i, q)} } :
          i \in storeQueries }

\* The places (Todo, position in its yamlPaths) of the stack where the triple
\* occurs.
PlacesOf(triple) ==
  { <<k, n>> \in (1..Len(todoStack)) \X (1..MaxYamls) :
      /\ n <= Len(todoStack[k].yamlPaths)
      /\ todoStack[k].repo = triple[1]
      /\ todoStack[k].commitHash = HashAt(triple[2])
      /\ todoStack[k].yamlPaths[n] = triple[3] }

\* C19: when the scan is over, each outstanding triple of an inspected commit
\* is at exactly one place of the Todos, every Todo has a path, and every
\* path of a Todo is an outstanding triple of an inspected commit.
C19_ExactCoverage ==
  ScanFinished =>
    /\ \A t \in OutstandingTriples : Cardinality(PlacesOf(t)) = 1
    /\ \A k \in 1..Len(todoStack) :
         /\ todoStack[k].yamlPaths # <<>>
         /\ Len(todoStack[k].yamlPaths) <= MaxYamls
         /\ \A n \in 1..Len(todoStack[k].yamlPaths) :
              \E t \in OutstandingTriples : <<k, n>> \in PlacesOf(t)

\* The scan is over with a stale repo, a recorded path and three or more
\* outstanding triples, of which two share a repo and a commit.
C19_Witness ==
  /\ pc = "searched"
  /\ Cardinality(OutstandingTriples) >= 3
  /\ \E t, u \in OutstandingTriples :
       t # u /\ t[1] = u[1] /\ t[2] = u[2]
  /\ \E q \in ledgerQueries : q.hit
  /\ \E i \in storeQueries :
       \E r \in 1..Len(affected[HashAt(i)]) : StaleByBoundary(i, r)

\* Position of the repo named name in the store's answer for commit i, and
\* of the path in the config list of that repo; 0 when absent.
RepoPos(i, name) ==
  LET rs == {r \in 1..Len(affected[HashAt(i)]) :
               affected[HashAt(i)][r].repo = name}
  IN IF rs = {} THEN 0 ELSE CHOOSE r \in rs : TRUE

PathPos(i, name, path) ==
  LET ys == affected[HashAt(i)][RepoPos(i, name)].yamls
      ns == {n \in 1..Len(ys) : ys[n].path = path}
  IN IF ns = {} THEN 0 ELSE CHOOSE n \in ns : TRUE

\* The j-th copy call comes from a place that the scan reaches after the place
\* of the k-th copy call: an older commit, or the same commit and a later
\* repo of the store's answer, or the same repo and a later first path.
ScannedAfter(j, k) ==
  LET a == copyCalls[j]
      b == copyCalls[k]
      ia == IndexOf(commitHashes, a.sourceRepoCommitHash)
      ib == IndexOf(commitHashes, b.sourceRepoCommitHash)
  IN \/ ia > ib
     \/ /\ ia = ib
        /\ \/ RepoPos(ia, a.destRepo) > RepoPos(ib, b.destRepo)
           \/ /\ a.destRepo = b.destRepo
              /\ PathPos(ia, a.destRepo, a.yamlPaths[1])
                   > PathPos(ib, b.destRepo, b.yamlPaths[1])

\* C20: the copy calls are the pushed Todos from the last pushed to the
\* first, all of them once the run is done; so an earlier copy call is for a
\* place scanned later, the calls of one commit are contiguous, and the paths
\* of one call are in the order of the config list.
C20_ReverseOfPushOrder ==
  /\ Len(copyCalls) <= Len(pushLog)
  /\ pc = "done" => Len(copyCalls) = Len(pushLog)
  /\ \A k \in 1..Len(copyCalls) :
       /\ AsTodo(copyCalls[k]) = pushLog[Len(pushLog) - k + 1]
       /\ \A j \in 1..(k - 1) : ScannedAfter(j, k)
       /\ \A j \in 1..(k - 1) :
            copyCalls[j].sourceRepoCommitHash = copyCalls[k].sourceRepoCommitHash
              => \A m \in j..k : copyCalls[m].sourceRepoCommitHash
                                   = copyCalls[k].sourceRepoCommitHash
       /\ LET c == copyCalls[k]
              i == IndexOf(commitHashes, c.sourceRepoCommitHash)
          IN \A n \in 1..(Len(c.yamlPaths) - 1) :
               PathPos(i, c.destRepo, c.yamlPaths[n])
                 < PathPos(i, c.destRepo, c.yamlPaths[n + 1])

\* A finished run whose copy calls are, in this order, the second and the
\* first path of a repo, then the repo before it in the store's answer, all
\* of one commit, and then a call for a newer commit.
C20_UncombinedWitness ==
  /\ pc = "done"
  /\ Len(copyCalls) >= 4
  /\ copyCalls[1].sourceRepoCommitHash = copyCalls[3].sourceRepoCommitHash
  /\ copyCalls[1].destRepo = "R" /\ copyCalls[1].yamlPaths = <<"/b">>
  /\ copyCalls[2].destRepo = "R" /\ copyCalls[2].yamlPaths = <<"/a">>
  /\ copyCalls[3].destRepo = "S"
  /\ copyCalls[4].sourceRepoCommitHash # copyCalls[3].sourceRepoCommitHash

\* A finished run with a copy call of two paths, then one for another repo.
C20_CombinedWitness ==
  /\ pc = "done"
  /\ Len(copyCalls) >= 2
  /\ copyCalls[1].destRepo = "R" /\ copyCalls[1].yamlPaths = <<"/a", "/b">>
  /\ copyCalls[2].destRepo = "S"

----------------------------------------------------------------------------
(* Runs in which a collaborator call throws *)

\* The collaborator call the function makes next at its position, or "none".
\* Line 135 calls the octokit factory only while octokit is null.
CallAt ==
  CASE pc = "start" -> "listCommits"
    [] pc = "commit" /\ commitIndex < Len(commitHashes) -> "getFilesModifiedBySha"
    [] pc = "findRepos" -> "findReposAffectedByFileChanges"
    [] pc = "repo" /\ repoIdx < Len(repos) /\ octokit = Null
         -> "getShortLivedOctokit"
    [] pc = "yaml" /\ yamlIdx < Len(repos[repoIdx + 1].yamls) -> "findBuildForCopy"
    [] pc = "replay" /\ replayIdx < Len(todoStack)
         -> "copyCodeAndAppendOrCreatePullRequest"
    [] OTHER -> "none"

\* Variant: an error of the copy call is caught and the next Todo follows.
ThrowCaughtInReplay ==
  /\ CallAt # "none"
  /\ failure' = [site |-> CallAt, position |-> replayIdx]
  /\ IF CallAt = "copyCodeAndAppendOrCreatePullRequest"
     THEN replayIdx' = replayIdx + 1 /\ UNCHANGED pc
     ELSE pc' = "failed" /\ UNCHANGED replayIdx
  /\ UNCHANGED <<envVars, fnVars, begun, run, firstRun, commitHashes,
                 commitIndex, repos, repoIdx, yamlIdx, todoYamls, todoStack,
                 stackSize, octokit, returned, inspected, storeQueries,
                 ledgerQueries, pushLog, copyCalls, octokitCalls>>

\* Lines 96-201: no call is inside a try, so an error of any awaited call
\* rejects the promise of the function; nothing after the call runs.
Throw ==
  /\ CallAt # "none"
  /\ failure' = [site |-> CallAt, position |-> replayIdx]
  /\ pc' = "failed"
  /\ UNCHANGED <<envVars, fnVars, begun, run, firstRun, commitHashes,
                 commitIndex, repos, repoIdx, yamlIdx, todoYamls, todoStack,
                 stackSize, octokit, replayIdx, returned, inspected,
                 storeQueries, ledgerQueries, pushLog, copyCalls, octokitCalls>>

NextFail ==
  \/ CollectHistory
  \/ GetFilesModified
  \/ FindRepos
  \/ GetOctokit
  \/ CheckTooOld
  \/ FindBuildForCopy
  \/ PushTodos
  \/ EndCommit
  \/ HistoryExhausted
  \/ ReverseStack
  \/ CopyCode
  \/ Return
  \/ Throw

SpecFail == Init /\ [][NextFail]_vars

\* C12: once a collaborator call has thrown, the run is aborted and returns
\* no value; if the call was not the copy call, no copy call was made; if it
\* was the copy call of replay position k, the copy calls made are exactly
\* those of the positions before k, and stay so.
C12_ErrorAborts ==
  failure.site # "none" =>
    /\ pc = "failed"
    /\ returned = Undefined
    /\ failure.site # "copyCodeAndAppendOrCreatePullRequest" => copyCalls = <<>>
    /\ failure.site = "copyCodeAndAppendOrCreatePullRequest" =>
         /\ Len(copyCalls) = failure.position
         /\ \A k \in 1..Len(copyCalls) : AsTodo(copyCalls[k]) = todoStack[k]
         /\ failure.position < Len(todoStack)

\* The copy call of the second of three or more Todos has thrown.
C12_Witness ==
  /\ pc = "failed"
  /\ failure.site = "copyCodeAndAppendOrCreatePullRequest"
  /\ failure.position = 1
  /\ Len(todoStack) >= 3
  /\ Len(copyCalls) = 1

----------------------------------------------------------------------------
(* A second run after the first, the copy call recording what it copied *)

\* The ledger after a successful copy of the Todo: one record for each of
\* its config paths, under the tag of the path and the commit.
RecordCopy(records, todo) ==
  records \cup { [repo |-> todo.repo,
                  tag |-> copyTagFrom(todo.yamlPaths[k], todo.commitHash)] :
                   k \in 1..Len(todo.yamlPaths) }

\* Lines 186-202: one awaited copy call, which records the copy in the
\* copyStateStore passed to it (line 191).
CopyCodeAndRecord ==
  /\ pc = "replay"
  /\ replayIdx < Len(todoStack)
  /\ LET todo == todoStack[replayIdx + 1]
     IN /\ copyCalls' = Append(copyCalls,
             [destRepo |-> todo.repo,
              sourceRepoCommitHash |-> todo.commitHash,
              yamlPaths |-> todo.yamlPaths])
        /\ ledger' = RecordCopy(ledger, todo)
  /\ replayIdx' = replayIdx + 1
  /\ UNCHANGED <<gitLog, affected, combinePullsThreshold, fnVars, auxVars, pc,
                 commitHashes, commitIndex, repos, repoIdx, yamlIdx, todoYamls,
                 todoStack, stackSize, octokit, returned, inspected,
                 storeQueries, ledgerQueries, pushLog, octokitCalls>>

\* The copy call of the first run throws: nothing is recorded for its Todo.
ThrowInCopy ==
  /\ run = 1
  /\ CallAt = "copyCodeAndAppendOrCreatePullRequest"
  /\ Throw

\* Lines 79-114, called again: the function starts afresh on the same
\* history and configs; only the ledger carries over.
Rerun ==
  /\ run = 1
  /\ pc \in {"done", "failed"}
  /\ run' = 2
  /\ firstRun' = [ended |-> pc, todos |-> todoStack, copyCalls |-> copyCalls,
                  ledger |-> ledger]
  /\ failure' = NoFailure
  /\ pc' = "start"
  /\ commitHashes' = <<>>
  /\ commitIndex' = 0
  /\ repos' = <<>>
  /\ repoIdx' = 0
  /\ yamlIdx' = 0
  /\ todoYamls' = <<>>
  /\ todoStack' = <<>>
  /\ stackSize' = 0
  /\ octokit' = Null
  /\ replayIdx' = 0
  /\ returned' = Undefined
  /\ inspected' = {}
  /\ storeQueries' = {}
  /\ ledgerQueries' = {}
  /\ pushLog' = <<>>
  /\ copyCalls' = <<>>
  /\ octokitCalls' = 0
  /\ UNCHANGED <<envVars, fnVars, begun>>

NextRerun ==
  \/ CollectHistory
  \/ GetFilesModified
  \/ FindRepos
  \/ GetOctokit
  \/ CheckTooOld
  \/ FindBuildForCopy
  \/ PushTodos
  \/ EndCommit
  \/ HistoryExhausted
  \/ ReverseStack
  \/ CopyCodeAndRecord
  \/ Return
  \/ ThrowInCopy
  \/ Rerun

\* The first run starts as any run does; of the thresholds, one that combines
\* two paths and the default, and a ledger of fewer than MaxLedger records.
InitRerun ==
  /\ Init
  /\ combinePullsThreshold \in {1, MAX_SAFE_INTEGER}
  /\ Cardinality(ledger) < MaxLedger

SpecRerun == InitRerun /\ [][NextRerun]_vars

\* The (repo, commit, config path) triples of a sequence of Todos.
Triples(todos) ==
  { <<todos[k].repo, todos[k].commitHash, todos[k].yamlPaths[y]>> :
      <<k, y>> \in { kk \in (1..Len(todos)) \X (1..2) :
                      kk[2] <= Len(todos[kk[1]].yamlPaths) } }

\* Number of places of the triple in the copy calls.
TimesCopied(calls, triple) ==
  Cardinality({ kk \in (1..Len(calls)) \X (1..2) :
                  /\ kk[2] <= Len(calls[kk[1]].yamlPaths)
                  /\ calls[kk[1]].destRepo = triple[1]
                  /\ calls[kk[1]].sourceRepoCommitHash = triple[2]
                  /\ calls[kk[1]].yamlPaths[kk[2]] = triple[3] })

\* The Todos of the first run from the replay position that failed on.
LeftOver ==
  SubSeq(firstRun.todos, Len(firstRun.copyCalls) + 1, Len(firstRun.todos))

\* C13: when the first run failed in the copy call of replay position k and
\* the second run has finished, the second run has copied exactly the triples
\* of the first run's Todos at the positions k and later, each once, and
\* none of the triples the first run copied.
C13_CrashRecovery ==
  (run = 2 /\ pc = "done" /\ firstRun.ended = "failed") =>
    /\ \A t \in Triples(LeftOver) : TimesCopied(copyCalls, t) = 1
    /\ \A k \in 1..Len(copyCalls) :
         Triples(<<AsTodo(copyCalls[k])>>) \subseteq Triples(LeftOver)
    /\ \A k \in 1..Len(firstRun.copyCalls) :
         \A t \in Triples(<<AsTodo(firstRun.copyCalls[k])>>) :
           TimesCopied(copyCalls, t) = 0

\* A second run has finished after a first run that copied for one commit
\* and failed with Todos of two more commits left.
C13_Witness ==
  /\ run = 2
  /\ pc = "done"
  /\ firstRun.ended = "failed"
  /\ Len(firstRun.copyCalls) >= 1
  /\ Len(LeftOver) >= 2
  /\ Len(copyCalls) >= 2
  /\ LeftOver[1].commitHash # LeftOver[Len(LeftOver)].commitHash
  /\ firstRun.copyCalls[1].sourceRepoCommitHash # LeftOver[1].commitHash

\* C14: a second run that follows a completed first run pushes no Todo,
\* makes no copy call and returns 0.
C14_RerunIsIdle ==
  (run = 2 /\ firstRun.ended = "done") =>
    /\ pushLog = <<>>
    /\ todoStack = <<>>
    /\ copyCalls = <<>>
    /\ pc = "done" => returned = Some(0)

\* A second run has returned after a first run that copied three Todos or
\* more and recorded them.
C14_Witness ==
  /\ run = 2
  /\ pc = "done"
  /\ firstRun.ended = "done"
  /\ Len(firstRun.copyCalls) >= 3
  /\ Cardinality(ledger) >= 3
  /\ returned = Some(0)

----------------------------------------------------------------------------
(* Runs in which the start and the completion of a call are two steps *)

\* A collaborator call: index is the commit index of a scan call and the
\* replay position of a copy call.
Call(op, index, repo, path) ==
  [op |-> op, index |-> index, repo |-> repo, path |-> path]

CopyCallOf(position) ==
  Call("copyCodeAndAppendOrCreatePullRequest", position,
       todoStack[position + 1].repo, "")

\* The call the function makes at its position (CallAt is not "none").
CurrentCall ==
  CASE CallAt = "findBuildForCopy" ->
         Call(CallAt, commitIndex, repos[repoIdx + 1].repo,
              repos[repoIdx + 1].yamls[yamlIdx + 1].path)
    [] CallAt = "copyCodeAndAppendOrCreatePullRequest" -> CopyCallOf(replayIdx)
    [] OTHER -> Call(CallAt, commitIndex, "", "")

\* Variant: the copy calls of all Todos are started together and awaited
\* afterwards, as with Promise.all.
BeginCopiesTogether ==
  /\ CallAt # "none"
  /\ CurrentCall \notin begun
  /\ begun' = begun \cup
       (IF CallAt = "copyCodeAndAppendOrCreatePullRequest"
        THEN {CopyCallOf(k) : k \in replayIdx..(Len(todoStack) - 1)}
        ELSE {CurrentCall})
  /\ UNCHANGED <<envVars, fnVars, failure, run, firstRun, pc, commitHashes,
                 commitIndex, repos, repoIdx, yamlIdx, todoYamls, todoStack,
                 stackSize, octokit, replayIdx, returned, inspected,
                 storeQueries, ledgerQueries, pushLog, copyCalls, octokitCalls>>

\* Lines 101, 122, 128, 135, 146, 195: the operand of an await is evaluated,
\* which starts the one call of the statement the function has reached.
BeginCall ==
  /\ CallAt # "none"
  /\ CurrentCall \notin begun
  /\ begun' = begun \cup {CurrentCall}
  /\ UNCHANGED <<envVars, fnVars, failure, run, firstRun, pc, commitHashes,
                 commitIndex, repos, repoIdx, yamlIdx, todoYamls, todoStack,
                 stackSize, octokit, replayIdx, returned, inspected,
                 storeQueries, ledgerQueries, pushLog, copyCalls, octokitCalls>>

\* await: the function goes on when the call it has started has completed;
\* a statement without a call goes on at once.
Awaited == CallAt = "none" \/ CurrentCall \in begun

AwaitCollectHistory == Awaited /\ CollectHistory
AwaitGetFilesModified == Awaited /\ GetFilesModified
AwaitFindRepos == Awaited /\ FindRepos
AwaitGetOctokit == Awaited /\ GetOctokit
AwaitFindBuildForCopy == Awaited /\ FindBuildForCopy
AwaitCopyCode == Awaited /\ CopyCode

NextAwait ==
  \/ BeginCall
  \/ AwaitCollectHistory
  \/ AwaitGetFilesModified
  \/ AwaitFindRepos
  \/ AwaitGetOctokit
  \/ CheckTooOld
  \/ AwaitFindBuildForCopy
  \/ PushTodos
  \/ EndCommit
  \/ HistoryExhausted
  \/ ReverseStack
  \/ AwaitCopyCode
  \/ Return

SpecAwait == Init /\ [][NextAwait]_vars

\* The call has completed: its result is in the logs of the run.
Completed(c) ==
  CASE c.op = "listCommits" -> pc # "start"
    [] c.op = "getFilesModifiedBySha" -> c.index \in inspected
    [] c.op = "findReposAffectedByFileChanges" -> c.index \in storeQueries
    [] c.op = "getShortLivedOctokit" -> octokitCalls >= 1
    [] c.op = "findBuildForCopy" ->
         \E q \in ledgerQueries :
           q.index = c.index /\ q.repo = c.repo /\ q.path = c.path
    [] c.op = "copyCodeAndAppendOrCreatePullRequest" -> Len(copyCalls) > c.index

InFlight == {c \in begun : ~Completed(c)}

\* C15: at most one collaborator call is in flight; when a copy call has
\* been started the copy calls of all earlier Todos have completed; when the
\* inspection of a commit has been started no ledger lookup is in flight.
C15_OneCallInFlight ==
  /\ Cardinality(InFlight) <= 1
  /\ \A c \in begun :
       c.op = "copyCodeAndAppendOrCreatePullRequest" => Len(copyCalls) >= c.index
  /\ \A c \in InFlight :
       c.op = "getFilesModifiedBySha" =>
         \A d \in begun : d.op = "findBuildForCopy" => Completed(d)

\* The copy call of the second Todo is in flight, the first having completed,
\* after a scan that looked up the ledger for two commits.
C15_Witness ==
  /\ pc = "replay"
  /\ replayIdx = 1
  /\ Len(todoStack) >= 2
  /\ InFlight = {CopyCallOf(1)}
  /\ Len(copyCalls) = 1
  /\ \E c, d \in begun :
       /\ c.op = "findBuildForCopy" /\ d.op = "findBuildForCopy"
       /\ c.index # d.index

====
